---- MODULE Spec2Model ----
(***************************************************************************)
(* Authentication core of boilerplate-fastapi: the two token providers     *)
(* (JWTProvider, LoginPasswordProvider) and the current-principal          *)
(* resolution pipeline of app/dependencies.py.                             *)
(*                                                                         *)
(* Strings are sequences of one-character strings. A token string is kept  *)
(* as its parts: the signed content, the MAC that the signature segment    *)
(* decodes to, and the unused trailing bits of the signature's last        *)
(* base64 character.                                                       *)
(***************************************************************************)
EXTENDS Integers, Sequences, FiniteSets, TLC

VARIABLES
    AUTH_TYPE,  \* settings.AUTH_TYPE
    now,        \* the wall clock, in ticks
    users,      \* the users table: id -> row
    deleted,    \* history: ids of the rows deleted so far
    req,        \* the request being resolved
    token,      \* the credential string the client holds
    issued,     \* history: the arguments and random id of the last issue
    vres,       \* the result of the last verify_token call
    session_secret, \* settings.SESSION_SECRET_KEY as configured ("" when unset)
    provider,   \* self of the provider object the handlers are given
    email_unique,   \* whether the users table refuses a second row of an email
    calls       \* the register and login requests in flight, per client

vars == <<AUTH_TYPE, now, users, deleted, req, token, issued, vres,
          session_secret, provider, email_unique, calls>>

-----------------------------------------------------------------------------
(* Bounds of the model *)

TicksPerSecond == 2   \* clock resolution below the second
MaxSubLen == 2        \* longest subject string
MaxFineTicks == 4     \* single ticks the clock makes after each long step
MaxUsers == 1         \* rows of the users table
MaxRows == 2          \* rows the register requests of a run may add

(* Settings (app/core/config.py) *)

ACCESS_TOKEN_EXPIRE_MINUTES == 30
SESSION_EXPIRE_MINUTES == 60
REFRESH_TOKEN_EXPIRE_DAYS == 7

SECRET_KEY == "SECRET_KEY"
SESSION_SECRET_KEY == "SESSION_SECRET_KEY"
OtherKey == "another-secret"

AuthTypes == {"jwt", "login_password"}

-----------------------------------------------------------------------------
(* Strings *)

SubAlphabet == {"1", "2", ":"}
IdAlphabet == {"A", "1", "-"}

SeqsUpTo(S, n) == UNION {[1..k -> S] : k \in 0..n}

Subs == SeqsUpTo(SubAlphabet, MaxSubLen)
\* Two of the values secrets.token_urlsafe(32) can return, shortened.
SessionIds == {<<"A">>, <<"1", "-">>}

Digits == {"0", "1", "2", "3", "4", "5", "6", "7", "8", "9"}

DigitValue(c) ==
    CASE c = "0" -> 0 [] c = "1" -> 1 [] c = "2" -> 2 [] c = "3" -> 3
      [] c = "4" -> 4 [] c = "5" -> 5 [] c = "6" -> 6 [] c = "7" -> 7
      [] c = "8" -> 8 [] c = "9" -> 9

RECURSIVE DecimalValue(_)
DecimalValue(s) ==
    IF s = <<>> THEN 0
    ELSE 10 * DecimalValue(SubSeq(s, 1, Len(s) - 1)) + DigitValue(s[Len(s)])

\* int(s) of a str: a ValueError unless s is a decimal literal.
ParseInt(s) ==
    IF Len(s) > 0 /\ \A i \in 1..Len(s) : s[i] \in Digits
    THEN [ok |-> TRUE, value |-> DecimalValue(s)]
    ELSE [ok |-> FALSE, value |-> 0]

\* str(n) of a non-negative int, for the ids of the model.
RECURSIVE Str(_)
Str(n) ==
    IF n < 10 THEN <<CHOOSE c \in Digits : DigitValue(c) = n>>
    ELSE Str(n \div 10) \o <<CHOOSE c \in Digits : DigitValue(c) = n % 10>>

\* s.split(sep, 1): the parts before and after the first sep, one part if none.
SplitFirst(s, sep) ==
    IF \E i \in 1..Len(s) : s[i] = sep
    THEN LET i == CHOOSE j \in 1..Len(s) :
                      s[j] = sep /\ \A k \in 1..(j - 1) : s[k] # sep
         IN  <<SubSeq(s, 1, i - 1), SubSeq(s, i + 1, Len(s))>>
    ELSE <<s>>

\* s.rsplit(sep, 1), used by a faulty variant below.
SplitLast(s, sep) ==
    IF \E i \in 1..Len(s) : s[i] = sep
    THEN LET i == CHOOSE j \in 1..Len(s) :
                      s[j] = sep /\ \A k \in (j + 1)..Len(s) : s[k] # sep
         IN  <<SubSeq(s, 1, i - 1), SubSeq(s, i + 1, Len(s))>>
    ELSE <<s>>

-----------------------------------------------------------------------------
(* Claims maps: records over the keys in use *)

NoSubData == [scope |-> "x"]
WithSub(s) == [sub |-> s]
ClaimsMaps == {NoSubData} \cup {WithSub(s) : s \in Subs}

\* to_encode = data.copy(); to_encode.update({"exp": expire})
WithExp(data, expire) ==
    [k \in DOMAIN data \cup {"exp"} |-> IF k = "exp" THEN expire ELSE data[k]]

\* d.get(key): present or None
Get(d, key) ==
    IF key \in DOMAIN d THEN [present |-> TRUE, value |-> d[key]]
    ELSE [present |-> FALSE, value |-> <<>>]

-----------------------------------------------------------------------------
(* Token strings *)

NoToken == [kind |-> "none"]
Garbage == [kind |-> "garbage"]

\* The MAC of msg under key.
Mac(key, msg) == [key |-> key, msg |-> msg]
\* What a signature segment decodes to after one of its characters changed.
BrokenMac(sig) == [sig EXCEPT !.key = "damaged"]

\* Unused low bits of the last base64 character of a signature: the encoder
\* writes 0, the decoder ignores them.
PadBits == 0..3

-----------------------------------------------------------------------------
(* Results and errors *)

Bearer == {<<"WWW-Authenticate", "Bearer">>}
NoHeaders == {}

HTTPException(status_code, detail, headers) ==
    [kind |-> "HTTPException", status_code |-> status_code,
     detail |-> detail, headers |-> headers]

\* An exception other than HTTPException.
ValueError == [kind |-> "ValueError"]

\* raise ValueError(message), of the provider selection and construction
ConfigError(message) == [kind |-> "ValueError", message |-> message]

Returned(value) == [kind |-> "return", value |-> value]
Raised(exc) == [kind |-> "raise", exc |-> exc]

\* timedelta arguments, in seconds; None is NoDelta.
NoDelta == [given |-> FALSE, seconds |-> 0]
Delta(s) == [given |-> TRUE, seconds |-> s]

\* timedelta.__bool__
Truthy(expires_delta) == expires_delta.given /\ expires_delta.seconds # 0

-----------------------------------------------------------------------------
(* JWTProvider (app/auth/providers/jwt_provider.py) *)

\* jwt.encode: a datetime claim becomes its whole seconds, the claims are
\* signed with HMAC under key, the signature is written canonically.
jwt_encode(to_encode, expire_ticks, key) ==
    LET claims == WithExp(to_encode, expire_ticks \div TicksPerSecond)
    IN  [kind |-> "jwt", payload |-> claims, sig |-> Mac(key, claims), pad |-> 0]

\* Faulty variant: the claims passed in are not copied into the token.
JWTProvider_create_access_token_NoCopy(data, expires_delta, t) ==
    LET expire == IF Truthy(expires_delta)
                  THEN t + expires_delta.seconds * TicksPerSecond
                  ELSE t + ACCESS_TOKEN_EXPIRE_MINUTES * 60 * TicksPerSecond
    IN  jwt_encode(NoSubData, expire, SECRET_KEY)

JWTProvider_create_access_token(data, expires_delta, t) ==
    LET expire == IF Truthy(expires_delta)
                  THEN t + expires_delta.seconds * TicksPerSecond
                  ELSE t + ACCESS_TOKEN_EXPIRE_MINUTES * 60 * TicksPerSecond
    IN  jwt_encode(data, expire, SECRET_KEY)

\* Faulty variant: the refresh token is given the lifetime of an access token.
JWTProvider_create_refresh_token_AccessTtl(data, t) ==
    jwt_encode(data, t + ACCESS_TOKEN_EXPIRE_MINUTES * 60 * TicksPerSecond, SECRET_KEY)

JWTProvider_create_refresh_token(data, t) ==
    LET expire == t + REFRESH_TOKEN_EXPIRE_DAYS * 24 * 60 * 60 * TicksPerSecond
    IN  jwt_encode(data, expire, SECRET_KEY)

\* Faulty variant: a token is still accepted at the instant of its expiry.
jwt_expired_Late(exp, t) == exp * TicksPerSecond < t

\* PyJWT's exp validation: exp <= now, now being fractional seconds.
jwt_expired(exp, t) == exp * TicksPerSecond <= t

\* jwt.decode(token, key, algorithms=[ALGORITHM]) at instant t
jwt_decode(tok, key, t) ==
    IF tok.kind # "jwt" THEN Raised("DecodeError")
    ELSE IF tok.sig # Mac(key, tok.payload) THEN Raised("InvalidSignatureError")
    ELSE IF "exp" \in DOMAIN tok.payload /\ jwt_expired(tok.payload.exp, t)
         THEN Raised("ExpiredSignatureError")
    ELSE Returned(tok.payload)

\* Faulty variant: the claims are decoded without checking the signature.
JWTProvider_verify_token_Unverified(tok, t) ==
    IF tok.kind # "jwt"
    THEN Raised(HTTPException(401, "Invalid token", Bearer))
    ELSE IF "exp" \in DOMAIN tok.payload /\ jwt_expired(tok.payload.exp, t)
         THEN Raised(HTTPException(401, "Token has expired", Bearer))
    ELSE Returned(tok.payload)

JWTProvider_verify_token(tok, t) ==
    LET r == jwt_decode(tok, SECRET_KEY, t)
    IN  IF r.kind = "return" THEN r
        ELSE IF r.exc = "ExpiredSignatureError"
             THEN Raised(HTTPException(401, "Token has expired", Bearer))
        ELSE Raised(HTTPException(401, "Invalid token", Bearer))

-----------------------------------------------------------------------------
(* LoginPasswordProvider (app/auth/providers/login_password_provider.py) *)

\* self.max_age, in seconds
max_age == SESSION_EXPIRE_MINUTES * 60

\* TimestampSigner(key).sign(value) at instant t
signer_sign(value, key, t) ==
    LET ts == t \div TicksPerSecond
    IN  [kind |-> "session", value |-> value, ts |-> ts,
         sig |-> Mac(key, <<value, ts>>), pad |-> 0]

\* TimestampSigner(key).unsign(token, max_age) at instant t
signer_unsign(tok, key, maxage, t) ==
    IF tok.kind # "session" THEN Raised("BadSignature")
    ELSE IF tok.sig # Mac(key, <<tok.value, tok.ts>>) THEN Raised("BadSignature")
    ELSE LET age == (t \div TicksPerSecond) - tok.ts
         IN  IF age > maxage \/ age < 0 THEN Raised("SignatureExpired")
             ELSE Returned(tok.value)

\* LoginPasswordProvider(): self, or the ValueError of __init__
LoginPasswordProvider_init(secret) ==
    IF secret = ""
    THEN Raised(ConfigError("SESSION_SECRET_KEY is required for session authentication"))
    ELSE Returned([kind |-> "login_password", signer_key |-> secret, max_age |-> max_age])

\* f"{session_id}:{data.get('sub', '')}"
SessionValue(session_id, data) ==
    LET sub == Get(data, "sub")
    IN  session_id \o <<":">> \o (IF sub.present THEN sub.value ELSE <<>>)

LoginPasswordProvider_create_access_token(self, data, expires_delta, t, session_id) ==
    signer_sign(SessionValue(session_id, data), self.signer_key, t)

\* create_session(user_id): create_access_token({"sub": str(user_id)})
LoginPasswordProvider_create_session(self, user_id, t, session_id) ==
    LoginPasswordProvider_create_access_token(self, WithSub(Str(user_id)), NoDelta, t,
                                              session_id)

\* Faulty variant: deleting a session replaces the signing secret.
LoginPasswordProvider_delete_session_Rotating(self, session_id) ==
    [self EXCEPT !.signer_key = OtherKey]

\* delete_session(session_id): `pass`; self is as it was.
LoginPasswordProvider_delete_session(self, session_id) == self

\* Faulty variant: the signed value is split on its last ':'.
LoginPasswordProvider_verify_token_SplitLast(self, tok, t) ==
    LET r == signer_unsign(tok, self.signer_key, self.max_age, t)
    IN  IF r.kind = "return"
        THEN LET parts == SplitLast(r.value, ":")
             IN  IF Len(parts) = 2
                 THEN Returned([sub |-> parts[2], session_id |-> parts[1]])
                 ELSE Raised(HTTPException(401, "Invalid session", NoHeaders))
        ELSE IF r.exc = "SignatureExpired"
             THEN Raised(HTTPException(401, "Session has expired", NoHeaders))
        ELSE Raised(HTTPException(401, "Invalid session", NoHeaders))

LoginPasswordProvider_verify_token(self, tok, t) ==
    LET r == signer_unsign(tok, self.signer_key, self.max_age, t)
    IN  IF r.kind = "return"
        THEN LET parts == SplitFirst(r.value, ":")
             IN  IF Len(parts) = 2
                 THEN Returned([sub |-> parts[2], session_id |-> parts[1]])
                 ELSE Raised(HTTPException(401, "Invalid session", NoHeaders))
        ELSE IF r.exc = "SignatureExpired"
             THEN Raised(HTTPException(401, "Session has expired", NoHeaders))
        ELSE Raised(HTTPException(401, "Invalid session", NoHeaders))

-----------------------------------------------------------------------------
(* The provider selected by settings.AUTH_TYPE (get_auth_provider) *)

\* No provider object has been constructed.
NoProvider == [kind |-> "none", signer_key |-> "", max_age |-> 0]

\* JWTProvider(): the class has no __init__ and keeps nothing in self.
JWTProvider_init == [kind |-> "jwt", signer_key |-> "", max_age |-> 0]

\* The values settings.AUTH_TYPE can be given (the comment of config.py).
ConfiguredAuthTypes == {"jwt", "login_password", "oauth2", "none"}

get_auth_provider(auth_type, secret) ==
    IF auth_type = "jwt" THEN Returned(JWTProvider_init)
    ELSE IF auth_type = "login_password" THEN LoginPasswordProvider_init(secret)
    ELSE Raised(ConfigError("Unsupported authentication type"))

\* The methods of the provider object the handler was given (provider).
create_access_token(kind, data, expires_delta, t, session_id) ==
    IF kind = "jwt" THEN JWTProvider_create_access_token(data, expires_delta, t)
    ELSE LoginPasswordProvider_create_access_token(provider, data, expires_delta, t,
                                                   session_id)

verify_token(kind, tok, t) ==
    IF kind = "jwt" THEN JWTProvider_verify_token(tok, t)
    ELSE LoginPasswordProvider_verify_token(provider, tok, t)

-----------------------------------------------------------------------------
(* What a client can do to a token string it holds *)

OneCharChanges(s, alphabet) ==
    {[s EXCEPT ![i] = c] : <<i, c>> \in {p \in (1..Len(s)) \X alphabet : s[p[1]] # p[2]}}

\* The strings that differ from tok in exactly one character: a character of
\* the signed content, a character of the signature that changes the bytes it
\* decodes to, the last character of the signature in its unused bits only,
\* or a separator.
Tamperings(tok) ==
    IF tok.kind = "jwt"
    THEN (IF "sub" \in DOMAIN tok.payload
          THEN {[tok EXCEPT !.payload.sub = s] :
                    s \in OneCharChanges(tok.payload.sub, SubAlphabet)}
          ELSE {})
         \cup {[tok EXCEPT !.payload.exp = @ + 1]}
         \cup {[tok EXCEPT !.sig = BrokenMac(@)]}
         \cup {[tok EXCEPT !.pad = p] : p \in PadBits \ {tok.pad}}
         \cup {Garbage}
    ELSE IF tok.kind = "session"
    THEN {[tok EXCEPT !.value = v] :
              v \in OneCharChanges(tok.value, SubAlphabet \cup IdAlphabet)}
         \cup {[tok EXCEPT !.ts = @ + 1]}
         \cup {[tok EXCEPT !.sig = BrokenMac(@)]}
         \cup {[tok EXCEPT !.pad = p] : p \in PadBits \ {tok.pad}}
         \cup {Garbage}
    ELSE {}

\* The token of the same content signed under another secret.
Forged(tok) ==
    IF tok.kind = "jwt" THEN [tok EXCEPT !.sig = Mac(OtherKey, tok.payload)]
    ELSE IF tok.kind = "session"
    THEN [tok EXCEPT !.sig = Mac(OtherKey, <<tok.value, tok.ts>>)]
    ELSE tok

-----------------------------------------------------------------------------
(* The clock *)

\* The long step of the clock: the session max age.
LongStep == max_age * TicksPerSecond

\* Time passes: by one tick, or once by the long step.
Elapse(d) ==
    /\ \/ d = 1 /\ now % LongStep < MaxFineTicks
       \/ d = LongStep /\ now < LongStep
    /\ now' = now + d
    /\ vres' = [called |-> FALSE]
    /\ UNCHANGED <<session_secret, provider, email_unique, calls,
                   AUTH_TYPE, users, deleted, req, token, issued>>

-----------------------------------------------------------------------------
(* The users table (app/db/repositories/base.py) *)

UserIds == 1..MaxUsers
NoRow == [exists |-> FALSE, is_active |-> FALSE]
Rows == {NoRow} \cup {[exists |-> TRUE, is_active |-> a] : a \in BOOLEAN}

\* scalar_one_or_none() of select(User).where(User.id == id)
get_by_id(table, id) ==
    IF id \in DOMAIN table /\ table[id].exists
    THEN [found |-> TRUE, id |-> id, is_active |-> table[id].is_active]
    ELSE [found |-> FALSE, id |-> id, is_active |-> FALSE]

-----------------------------------------------------------------------------
(* The Authorization header: runs of whitespace and words *)

WS == [kind |-> "ws"]
Txt(s) == [kind |-> "text", text |-> s]

NoHeader == [present |-> FALSE, runs |-> <<>>]
Header(runs) == [present |-> TRUE, runs |-> runs]

IsWord(r) == r.kind # "ws"

\* authorization.split()
Split(authorization) == SelectSeq(authorization.runs, IsWord)

\* scheme.lower()
Lower(word) ==
    IF word.kind = "text"
    THEN (IF word.text \in {"Bearer", "bearer", "BEARER"} THEN "bearer"
          ELSE IF word.text \in {"Basic", "basic"} THEN "basic"
          ELSE word.text)
    ELSE "(a token)"

\* not authorization
Falsy(authorization) == ~authorization.present \/ authorization.runs = <<>>

-----------------------------------------------------------------------------
(* get_current_user and get_current_active_user (app/dependencies.py) *)

Stop(outcome, stages, verify_calls) ==
    [next |-> "done", outcome |-> outcome, stages |-> stages,
     verify_calls |-> verify_calls, user_id |-> 0,
     sub |-> [present |-> FALSE, value |-> <<>>]]

\* Faulty variant: the scheme is not compared.
SchemeAccepted_Any(scheme) == TRUE

\* scheme.lower() != "bearer", negated
SchemeAccepted(scheme) == Lower(scheme) = "bearer"

\* get_current_user from its entry up to the await of get_by_id
get_current_user_begin(authorization, kind, t) ==
    IF Falsy(authorization)
    THEN Stop(Raised(HTTPException(401, "Not authenticated", Bearer)), <<"Start">>, 0)
    ELSE
    LET parts == Split(authorization) IN
    IF Len(parts) # 2
    THEN Stop(Raised(HTTPException(401, "Invalid authorization header", Bearer)),
              <<"Start", "HeaderParsed">>, 0)
    ELSE IF ~SchemeAccepted(parts[1])
    THEN Stop(Raised(HTTPException(401, "Invalid authentication scheme", Bearer)),
              <<"Start", "HeaderParsed">>, 0)
    ELSE
    LET payload == verify_token(kind, parts[2], t) IN
    IF payload.kind = "raise"
    THEN Stop(payload, <<"Start", "HeaderParsed", "Verifying">>, 1)
    ELSE
    LET user_id == Get(payload.value, "sub") IN
    IF ~user_id.present
    THEN Stop(Raised(HTTPException(401, "Invalid token payload", Bearer)),
              <<"Start", "HeaderParsed", "Verifying", "ClaimsExtracted">>, 1)
    ELSE
    LET id == ParseInt(user_id.value) IN
    IF ~id.ok
    THEN [Stop(Raised(ValueError),
               <<"Start", "HeaderParsed", "Verifying", "ClaimsExtracted">>, 1)
            EXCEPT !.sub = user_id]
    ELSE [next |-> "lookup", outcome |-> Returned(0),
          stages |-> <<"Start", "HeaderParsed", "Verifying", "ClaimsExtracted",
                       "PrincipalLookup">>,
          verify_calls |-> 1, user_id |-> id.value, sub |-> user_id]

\* Faulty variant: an unknown subject is answered like an inactive account.
get_current_user_end_Forbidden(user) ==
    IF ~user.found
    THEN Raised(HTTPException(403, "User not found", NoHeaders))
    ELSE Returned(user)

\* get_current_user after get_by_id returned
get_current_user_end(user) ==
    IF ~user.found
    THEN Raised(HTTPException(401, "User not found", Bearer))
    ELSE Returned(user)

get_current_active_user(current_user) ==
    IF ~current_user.is_active
    THEN Raised(HTTPException(403, "Inactive user", NoHeaders))
    ELSE Returned(current_user)

\* The endpoints of app/api/v1/endpoints/users.py and their dependency.
Endpoints == {"GET /me", "PATCH /me", "GET /", "GET /{user_id}"}
DependsOnActive(endpoint) == endpoint # "GET /me"

\* What the client sees: the endpoint runs with the principal, an
\* HTTPException becomes its status, any other exception reaches
\* general_exception_handler.
Response(outcome) ==
    IF outcome.kind = "return"
    THEN [class |-> "Authorized", status_code |-> 200, headers |-> NoHeaders]
    ELSE IF outcome.exc.kind = "HTTPException"
    THEN [class |-> "Rejected", status_code |-> outcome.exc.status_code,
          headers |-> outcome.exc.headers]
    ELSE [class |-> "Error", status_code |-> 500, headers |-> NoHeaders]

-----------------------------------------------------------------------------
(* Requests *)

Idle == [pc |-> "idle"]

\* An instant more than max_age after 0.
Late == max_age * TicksPerSecond + TicksPerSecond

\* The last tick before a refresh token issued at 0 expires.
RefreshEdge == REFRESH_TOKEN_EXPIRE_DAYS * 24 * 60 * 60 * TicksPerSecond - 1

\* The token strings a client can present at instant t: the access tokens
\* and, from the bearer provider, the refresh tokens issued at 0 or at t, the
\* same signed with another secret, junk.
Presentable(kind, t) ==
    LET made == {create_access_token(kind, data, expires_delta, t0, session_id) :
                     data \in ClaimsMaps, expires_delta \in {NoDelta, Delta(1)},
                     t0 \in {0, t}, session_id \in SessionIds}
                \cup (IF kind = "jwt"
                      THEN {JWTProvider_create_refresh_token(data, t0) :
                                data \in ClaimsMaps, t0 \in {0, t}}
                      ELSE {})
    IN  made \cup {Forged(tok) : tok \in made} \cup {Garbage}

Authorizations(kind, t) ==
    {NoHeader, Header(<<>>), Header(<<WS>>), Header(<<Txt("Bearer")>>)}
    \cup UNION {{Header(<<tok>>),
                 Header(<<Txt("Bearer"), WS, tok>>),
                 Header(<<WS, Txt("bearer"), WS, tok, WS>>),
                 Header(<<Txt("Basic"), WS, tok>>),
                 Header(<<Txt("Bearer"), WS, tok, WS, Txt("x")>>)} :
                    tok \in Presentable(kind, t)}

\* A request arrives and get_current_user runs up to its database query.
ReceiveRequest(endpoint, authorization) ==
    /\ req.pc = "idle"
    /\ LET r == get_current_user_begin(authorization, AUTH_TYPE, now)
       IN  req' = [pc |-> r.next, endpoint |-> endpoint,
                   authorization |-> authorization, outcome |-> r.outcome,
                   stages |-> r.stages, verify_calls |-> r.verify_calls,
                   lookups |-> 0, user_id |-> r.user_id, sub |-> r.sub,
                   user |-> get_by_id(users, 0)]
    /\ UNCHANGED <<session_secret, provider, email_unique, calls,
                   AUTH_TYPE, now, users, deleted, token, issued, vres>>

\* The query returns; get_current_user ends and, where the endpoint depends
\* on it, get_current_active_user runs.
CompleteLookup ==
    /\ req.pc = "lookup"
    /\ LET user == get_by_id(users, req.user_id)
           r == get_current_user_end(user)
           active == DependsOnActive(req.endpoint) /\ r.kind = "return"
       IN  req' = [req EXCEPT
                     !.pc = "done",
                     !.lookups = @ + 1,
                     !.user = user,
                     !.stages = IF active THEN Append(@, "ActivityCheck") ELSE @,
                     !.outcome = IF active THEN get_current_active_user(r.value) ELSE r]
    /\ UNCHANGED <<session_secret, provider, email_unique, calls,
                   AUTH_TYPE, now, users, deleted, token, issued, vres>>

\* The response is sent.
Respond ==
    /\ req.pc = "done"
    /\ req' = Idle
    /\ UNCHANGED <<session_secret, provider, email_unique, calls,
                   AUTH_TYPE, now, users, deleted, token, issued, vres>>

\* BaseRepository.delete_by_id
DeleteUser(id) ==
    /\ users[id].exists
    /\ users' = [users EXCEPT ![id] = NoRow]
    /\ deleted' = deleted \cup {id}
    /\ UNCHANGED <<session_secret, provider, email_unique, calls,
                   AUTH_TYPE, now, req, token, issued, vres>>

\* BaseRepository.update_by_id(id, {"is_active": is_active})
UpdateUser(id, is_active) ==
    /\ users[id].exists
    /\ users[id].is_active # is_active
    /\ users' = [users EXCEPT ![id].is_active = is_active]
    /\ UNCHANGED <<session_secret, provider, email_unique, calls,
                   AUTH_TYPE, now, deleted, req, token, issued, vres>>

Init ==
    /\ AUTH_TYPE \in AuthTypes
    /\ now \in {0, Late, RefreshEdge}
    /\ users \in [UserIds -> Rows]
    /\ deleted = {}
    /\ req = [pc |-> "idle"]
    /\ token = NoToken
    /\ issued = [any |-> FALSE]
    /\ vres = [called |-> FALSE]
    /\ session_secret = SESSION_SECRET_KEY
    /\ provider = get_auth_provider(AUTH_TYPE, session_secret).value
    /\ email_unique = FALSE
    /\ calls = <<>>

Next ==
    \/ /\ req.pc = "idle"
       /\ \E endpoint \in Endpoints, authorization \in Authorizations(AUTH_TYPE, now) :
              ReceiveRequest(endpoint, authorization)
    \/ CompleteLookup
    \/ Respond
    \/ \E id \in UserIds : DeleteUser(id)
    \/ \E id \in UserIds, is_active \in BOOLEAN : UpdateUser(id, is_active)

Spec == Init /\ [][Next]_vars

-----------------------------------------------------------------------------
(* Properties of the resolution pipeline, under Spec *)

Done == req.pc = "done"

Rejected(status_code) ==
    /\ Response(req.outcome).class = "Rejected"
    /\ Response(req.outcome).status_code = status_code

NoStageTwice ==
    \A i, j \in 1..Len(req.stages) : req.stages[i] = req.stages[j] => i = j

\* C1 as stated: every resolution ends as Authorized, as a 401 rejection or as
\* a 403 rejection, never otherwise (no 500), and enters no stage twice.
C1_ThreeOutcomes ==
    Done =>
        /\ \/ Response(req.outcome).class = "Authorized"
           \/ Rejected(401)
           \/ Rejected(403)
        /\ NoStageTwice

\* C2 as stated: a verified token whose subject resolves to a principal with
\* is_active false ends in the 403 rejection on every endpoint, GET /me too.
C2_InactiveForbidden ==
    (Done /\ req.lookups = 1 /\ req.user.found /\ ~req.user.is_active) =>
        Rejected(403)

\* C3 as stated: when verify_token succeeded and the claims have no subject or
\* a subject that is not a numeric string, the resolution ends in the 401
\* rejection and the repository is not queried.
C3_BadSubjectUnauthenticated ==
    (Done /\ Len(req.stages) >= 4 /\ req.stages[4] = "ClaimsExtracted"
        /\ (~req.sub.present \/ ~ParseInt(req.sub.value).ok)) =>
        Rejected(401) /\ req.lookups = 0

\* The header is absent or empty, or does not split into exactly two parts, or
\* its first part is not "bearer" in any letter case.
BadHeader(authorization) ==
    \/ ~authorization.present
    \/ authorization.runs = <<>>
    \/ Len(Split(authorization)) # 2
    \/ Lower(Split(authorization)[1]) # "bearer"

\* C4: a request whose Authorization header is absent, empty, not of two
\* parts or not of the bearer scheme ends in the 401 rejection with the
\* WWW-Authenticate: Bearer challenge, whatever its token part and whichever
\* provider is active, and verify_token is not called.
C4_BadHeaderRejected ==
    (Done /\ BadHeader(req.authorization)) =>
        /\ Rejected(401)
        /\ Response(req.outcome).headers = Bearer
        /\ req.verify_calls = 0
        /\ req.lookups = 0

\* C4 witness: "Basic <token>" was rejected although the token verifies and
\* its subject is an active user.
C4_Witness ==
    /\ Done /\ Len(req.authorization.runs) = 3
    /\ req.authorization.runs[1] = Txt("Basic")
    /\ LET r == verify_token(AUTH_TYPE, req.authorization.runs[3], now)
       IN  /\ r.kind = "return"
           /\ "sub" \in DOMAIN r.value /\ r.value.sub = <<"1">>
    /\ users[1].exists /\ users[1].is_active
    /\ Rejected(401) /\ req.verify_calls = 0

\* C5: when the token verified and get_by_id(subject) found no row, the
\* resolution ends in the 401 rejection with the Bearer challenge, never as
\* Forbidden or Authorized; so also for the token of a user deleted since.
C5_UnknownSubjectUnauthenticated ==
    (Done /\ req.lookups = 1 /\ ~req.user.found) =>
        /\ Rejected(401)
        /\ Response(req.outcome).headers = Bearer

\* C5 witness: a verified token of a user that was deleted has been rejected
\* with the 401.
C5_Witness ==
    /\ Done /\ req.lookups = 1 /\ ~req.user.found
    /\ req.user_id \in deleted
    /\ Rejected(401)

\* C6 as stated: every 401 of the resolution carries WWW-Authenticate: Bearer,
\* under both providers.
C6_ChallengeOnEvery401 ==
    (Done /\ Rejected(401)) => Response(req.outcome).headers = Bearer

\* The token part of a header that passed get_current_user's header checks.
PresentedToken == Split(req.authorization)[2]

\* C15: a refresh token of the bearer provider carries the claims it was given
\* and expiry = issue instant + REFRESH_TOKEN_EXPIRE_DAYS, with no type
\* marker; presented as "Bearer <refresh token>" at any instant before that
\* expiry, verify_token returns those claims and the resolver treats it
\* exactly as an unexpired access token of the same claims: for a numeric
\* subject whose user exists (and is active where the endpoint asks) the
\* request is Authorized as that user.
C15_RefreshAcceptedAsAccess ==
    (Done /\ AUTH_TYPE = "jwt" /\ ~BadHeader(req.authorization)) =>
        \A data \in ClaimsMaps, t0 \in {0, now} :
            LET refresh == JWTProvider_create_refresh_token(data, t0)
                access == JWTProvider_create_access_token(data, NoDelta, now)
                expiry == t0 + REFRESH_TOKEN_EXPIRE_DAYS * 24 * 60 * 60 * TicksPerSecond
                asRefresh == get_current_user_begin(
                                 Header(<<Txt("Bearer"), WS, refresh>>), AUTH_TYPE, now)
                asAccess == get_current_user_begin(
                                 Header(<<Txt("Bearer"), WS, access>>), AUTH_TYPE, now)
            IN  (PresentedToken = refresh /\ now < expiry) =>
                    /\ verify_token(AUTH_TYPE, refresh, now)
                           = Returned(WithExp(data, expiry \div TicksPerSecond))
                    /\ DOMAIN refresh.payload = DOMAIN access.payload
                    /\ asRefresh = asAccess
                    /\ req.stages # <<>> => req.verify_calls = 1
                    /\ (req.lookups = 1 /\ req.user.found
                          /\ (DependsOnActive(req.endpoint) => req.user.is_active)) =>
                           /\ Response(req.outcome).class = "Authorized"
                           /\ req.outcome.value.id = ParseInt(data.sub).value

\* C15 witness: the refresh token issued at 0 for subject "1" was presented
\* after the access token of the same login had expired, and the request was
\* Authorized as user 1.
C15_Witness ==
    /\ Done /\ AUTH_TYPE = "jwt" /\ ~BadHeader(req.authorization)
    /\ PresentedToken = JWTProvider_create_refresh_token(WithSub(<<"1">>), 0)
    /\ verify_token(AUTH_TYPE, JWTProvider_create_access_token(WithSub(<<"1">>), NoDelta, 0),
                    now)
           = Raised(HTTPException(401, "Token has expired", Bearer))
    /\ Response(req.outcome).class = "Authorized"
    /\ req.outcome.value.id = 1

-----------------------------------------------------------------------------
(* The providers, called directly *)

NoIssue == [any |-> FALSE]
NoResult == [called |-> FALSE]

Deltas == {NoDelta, Delta(0), Delta(1)}

\* await auth_provider.create_access_token(data, expires_delta), for the one
\* credential the client holds in a run.
CreateAccessToken(data, expires_delta, session_id) ==
    /\ ~issued.any
    /\ token' = create_access_token(AUTH_TYPE, data, expires_delta, now, session_id)
    /\ issued' = [any |-> TRUE, intact |-> TRUE, data |-> data,
                  at |-> now,
                  session_id |-> IF AUTH_TYPE = "jwt" THEN <<>> ELSE session_id,
                  token |-> create_access_token(AUTH_TYPE, data, expires_delta,
                                                now, session_id),
                  deleted |-> FALSE]
    /\ vres' = NoResult
    /\ UNCHANGED <<session_secret, provider, email_unique, calls,
                   AUTH_TYPE, now, users, deleted, req>>

\* The ids create_session is called with.
SessionUserIds == {0, 7, 12}

\* await auth_provider.create_session(user_id), session provider only
CreateSession(user_id, session_id) ==
    /\ ~issued.any
    /\ AUTH_TYPE = "login_password"
    /\ token' = LoginPasswordProvider_create_session(provider, user_id, now, session_id)
    /\ issued' = [any |-> TRUE, intact |-> TRUE, data |-> WithSub(Str(user_id)),
                  at |-> now, session_id |-> session_id,
                  token |-> LoginPasswordProvider_create_session(provider, user_id, now,
                                                                 session_id),
                  deleted |-> FALSE]
    /\ vres' = NoResult
    /\ UNCHANGED <<session_secret, provider, email_unique, calls,
                   AUTH_TYPE, now, users, deleted, req>>

\* await auth_provider.delete_session(token), session provider only; once in
\* a run.
DeleteSession ==
    /\ AUTH_TYPE = "login_password"
    /\ issued.any /\ ~issued.deleted
    /\ provider' = LoginPasswordProvider_delete_session(provider, token)
    /\ issued' = [issued EXCEPT !.deleted = TRUE]
    /\ vres' = NoResult
    /\ UNCHANGED <<session_secret, email_unique, calls,
                   AUTH_TYPE, now, users, deleted, req, token>>

\* The client changes one character of the token it was issued.
Tamper(t) ==
    /\ issued.any /\ issued.intact
    /\ t \in Tamperings(token)
    /\ token' = t
    /\ issued' = [issued EXCEPT !.intact = FALSE]
    /\ vres' = NoResult
    /\ UNCHANGED <<session_secret, provider, email_unique, calls,
                   AUTH_TYPE, now, users, deleted, req>>

\* The client signs the content of its token with a secret of its own.
Forge ==
    /\ issued.any /\ issued.intact
    /\ token' = Forged(token)
    /\ issued' = [issued EXCEPT !.intact = FALSE]
    /\ vres' = NoResult
    /\ UNCHANGED <<session_secret, provider, email_unique, calls,
                   AUTH_TYPE, now, users, deleted, req>>

\* await auth_provider.verify_token(token)
VerifyToken ==
    /\ token.kind # "none"
    /\ ~vres.called
    /\ vres' = [called |-> TRUE, at |-> now, result |-> verify_token(AUTH_TYPE, token, now)]
    /\ UNCHANGED <<session_secret, provider, email_unique, calls,
                   AUTH_TYPE, now, users, deleted, req, token, issued>>

NoUsers == [i \in UserIds |-> NoRow]

InitProvider ==
    /\ AUTH_TYPE \in AuthTypes
    /\ now = 0
    /\ users = NoUsers
    /\ deleted = {}
    /\ req = Idle
    /\ token = NoToken
    /\ issued = NoIssue
    /\ vres = NoResult
    /\ session_secret = SESSION_SECRET_KEY
    /\ provider = get_auth_provider(AUTH_TYPE, session_secret).value
    /\ email_unique = FALSE
    /\ calls = <<>>

NextProvider ==
    \/ \E data \in ClaimsMaps, expires_delta \in Deltas, session_id \in SessionIds :
           CreateAccessToken(data, expires_delta, session_id)
    \/ \E user_id \in SessionUserIds, session_id \in SessionIds :
           CreateSession(user_id, session_id)
    \/ DeleteSession
    \/ \E t \in Tamperings(token) : Tamper(t)
    \/ Forge
    \/ \E d \in {1, LongStep} : Elapse(d)
    \/ VerifyToken

SpecProvider == InitProvider /\ [][NextProvider]_vars

-----------------------------------------------------------------------------
(* Properties of the providers, under SpecProvider *)

Verified == vres.called /\ vres.result.kind = "return"
Refused == vres.called /\ vres.result.kind = "raise"

\* The held token carries a MAC of its own content under the secret of the
\* active provider.
CorrectlySigned ==
    \/ AUTH_TYPE = "jwt" /\ token.kind = "jwt"
           /\ token.sig = Mac(SECRET_KEY, token.payload)
    \/ AUTH_TYPE = "login_password" /\ token.kind = "session"
           /\ token.sig = Mac(SESSION_SECRET_KEY, <<token.value, token.ts>>)

\* The held token, at the instant of the last verify_token call, is inside its
\* time window: expiry strictly later than the instant (bearer), age in whole
\* seconds at most SESSION_EXPIRE_MINUTES * 60 (session).
InsideWindow ==
    IF AUTH_TYPE = "jwt"
    THEN token.payload.exp * TicksPerSecond > vres.at
    ELSE (vres.at \div TicksPerSecond) - token.ts <= SESSION_EXPIRE_MINUTES * 60

ExpiredDetail == IF AUTH_TYPE = "jwt" THEN "Token has expired" ELSE "Session has expired"

\* C7: no credential is accepted past its time window. For every correctly
\* signed token and every verification instant, verify_token succeeds only
\* inside the window (bearer: exp strictly later than now; session: age at most
\* max_age), and outside the window it fails with the expired error.
C7_NoCredentialPastWindow ==
    (vres.called /\ CorrectlySigned) =>
        /\ Verified => InsideWindow
        /\ ~InsideWindow =>
               /\ Refused
               /\ vres.result.exc.status_code = 401
               /\ vres.result.exc.detail = ExpiredDetail

\* C7 witness: a bearer token issued with a 1-second TTL and verified 2 seconds
\* later has failed as expired.
C7_Witness ==
    /\ AUTH_TYPE = "jwt" /\ issued.any /\ issued.intact
    /\ issued.token = JWTProvider_create_access_token(issued.data, Delta(1), issued.at)
    /\ vres.called /\ vres.at = issued.at + 2 * TicksPerSecond
    /\ Refused /\ vres.result.exc.detail = "Token has expired"

\* The token as its encoder would have written it.
Canonical(tok) ==
    IF tok.kind \in {"jwt", "session"} THEN [tok EXCEPT !.pad = 0] ELSE tok

\* C8 as stated: a token with one character changed, or signed with another
\* secret, never verifies.
C8_TamperedNeverVerifies ==
    (vres.called /\ issued.any /\ ~issued.intact) => Refused

\* C8 amended: a changed token whose content or decoded signature differs from
\* the issued token's, or that is signed with another secret, fails with the
\* invalid-token 401; a token that verifies decodes to exactly the content and
\* signature of the issued one.
C8_OnlyIssuedContentVerifies ==
    (vres.called /\ issued.any) =>
        /\ Verified => Canonical(token) = issued.token
        /\ (~issued.intact /\ Canonical(token) # issued.token) =>
               /\ Refused
               /\ vres.result.exc.status_code = 401
               /\ vres.result.exc.detail \in {"Invalid token", "Invalid session"}

\* C8 witness: a token with one character of its signed content changed was
\* verified inside the window of the original and refused.
C8_Witness ==
    /\ vres.called /\ issued.any /\ ~issued.intact
    /\ token.kind = issued.token.kind
    /\ token.sig = issued.token.sig /\ token.pad = 0
    /\ token # issued.token
    /\ vres.at = issued.at
    /\ Refused

\* C9: round trip. For both providers and every claims map with a subject s,
\* the token create_access_token returns verifies, before its expiry, to
\* claims whose subject is s.
C9_RoundTrip ==
    (vres.called /\ issued.any /\ issued.intact
        /\ "sub" \in DOMAIN issued.data /\ InsideWindow) =>
        /\ Verified
        /\ "sub" \in DOMAIN vres.result.value
        /\ vres.result.value.sub = issued.data.sub

\* C9 witness: a bearer token issued for subject "12" was verified at once and
\* gave the subject back.
C9_Witness ==
    /\ AUTH_TYPE = "jwt" /\ issued.any /\ issued.intact
    /\ issued.data = WithSub(<<"1", "2">>)
    /\ vres.called /\ vres.at = issued.at
    /\ Verified /\ vres.result.value.sub = <<"1", "2">>

\* C10: session separator stability. A session token issued for a subject and
\* verified within max age yields exactly {sub: the subject, session_id: the id
\* generated at issue}; the id is the part of the signed value before its
\* first ':' and the subject everything after it.
C10_SessionSeparator ==
    (AUTH_TYPE = "login_password" /\ vres.called /\ issued.any /\ issued.intact
        /\ "sub" \in DOMAIN issued.data /\ InsideWindow) =>
        /\ vres.result = Returned([sub |-> issued.data.sub,
                                   session_id |-> issued.session_id])
        /\ token.value = vres.result.value.session_id \o <<":">> \o vres.result.value.sub
        /\ \A i \in 1..Len(vres.result.value.session_id) :
               vres.result.value.session_id[i] # ":"

\* C10 witness: a session issued for subject "2" was verified at the last
\* second of its max age and gave back the subject and the generated id.
C10_Witness ==
    /\ AUTH_TYPE = "login_password" /\ issued.any /\ issued.intact
    /\ issued.data = WithSub(<<"2">>)
    /\ vres.called
    /\ (vres.at \div TicksPerSecond) - token.ts = SESSION_EXPIRE_MINUTES * 60
    /\ vres.result = Returned([sub |-> <<"2">>, session_id |-> issued.session_id])

-----------------------------------------------------------------------------
(* Process start, and the dependency get_auth_provider of every request *)

Starting == [pc |-> "starting"]

NoSub == [present |-> FALSE, value |-> <<>>]

\* lifespan of app/main.py up to its yield: log lines; no provider is built.
Lifespan ==
    /\ req.pc = "starting"
    /\ req' = Idle
    /\ UNCHANGED <<session_secret, provider, email_unique, calls,
                   AUTH_TYPE, now, users, deleted, token, issued, vres>>

\* A request arrives and FastAPI evaluates Depends(get_auth_provider) for it:
\* the provider object of this request, or the ValueError.
ResolveAuthProvider(endpoint) ==
    /\ req.pc = "idle"
    /\ LET r == get_auth_provider(AUTH_TYPE, session_secret)
       IN  /\ req' = [pc |-> IF r.kind = "raise" THEN "done" ELSE "resolved",
                      endpoint |-> endpoint, authorization |-> NoHeader,
                      outcome |-> r, stages |-> <<>>, verify_calls |-> 0,
                      lookups |-> 0, user_id |-> 0, sub |-> NoSub,
                      user |-> get_by_id(users, 0)]
           /\ provider' = IF r.kind = "raise" THEN provider ELSE r.value
    /\ UNCHANGED <<session_secret, email_unique, calls,
                   AUTH_TYPE, now, users, deleted, token, issued, vres>>

\* get_current_user runs with the provider object, up to its database query.
GetCurrentUser(authorization) ==
    /\ req.pc = "resolved"
    /\ LET r == get_current_user_begin(authorization, AUTH_TYPE, now)
       IN  req' = [req EXCEPT
                     !.pc = r.next, !.authorization = authorization,
                     !.outcome = r.outcome, !.stages = r.stages,
                     !.verify_calls = r.verify_calls,
                     !.user_id = r.user_id, !.sub = r.sub]
    /\ UNCHANGED <<session_secret, provider, email_unique, calls,
                   AUTH_TYPE, now, users, deleted, token, issued, vres>>

InitStartup ==
    /\ AUTH_TYPE \in ConfiguredAuthTypes
    /\ now = 0
    /\ users \in [UserIds -> Rows]
    /\ deleted = {}
    /\ req = Starting
    /\ token = NoToken
    /\ issued = NoIssue
    /\ vres = NoResult
    /\ session_secret \in {"", SESSION_SECRET_KEY}
    /\ provider = NoProvider
    /\ email_unique = FALSE
    /\ calls = <<>>

NextStartup ==
    \/ Lifespan
    \/ \E endpoint \in Endpoints : ResolveAuthProvider(endpoint)
    \/ /\ req.pc = "resolved"
       /\ \E authorization \in Authorizations(AUTH_TYPE, now) :
              GetCurrentUser(authorization)
    \/ CompleteLookup
    \/ Respond

SpecStartup == InitStartup /\ [][NextStartup]_vars

\* The request ended in the ValueError of the provider selection or of the
\* provider's constructor.
EndedInConfigError ==
    /\ req.pc = "done" /\ req.outcome.kind = "raise"
    /\ req.outcome.exc.kind = "ValueError"
    /\ "message" \in DOMAIN req.outcome.exc

\* C11 as stated: the provider is selected and constructed at process start,
\* so an unrecognised AUTH_TYPE, or login_password with no SESSION_SECRET_KEY,
\* stops the process before it serves and is never an error raised while a
\* request is being handled: no request ends in that error.
C11_ConfigErrorNeverPerRequest == ~EndedInConfigError

-----------------------------------------------------------------------------
(* Further properties of the providers, under SpecProvider *)

\* s is a numeric string: not empty, decimal digits only.
Numeric(s) == Len(s) > 0 /\ \A i \in 1..Len(s) : s[i] \in Digits

\* C12 as stated: whenever verify_token of the session provider succeeds on a
\* token the provider issued, through create_access_token or create_session,
\* the subject it returns is a numeric string, also when the claims given to
\* create_access_token had no "sub" or a "sub" that is not numeric.
C12_SessionSubjectNumeric ==
    (AUTH_TYPE = "login_password" /\ issued.any /\ issued.intact /\ Verified) =>
        Numeric(vres.result.value.sub)

\* The case of the held token at the last verify_token call, as jwt.decode
\* tells them apart: "ExpiredSignatureError" (valid signature, past expiry),
\* "InvalidSignatureError" (the MAC does not match), "DecodeError" (the string
\* does not decode into the token structure).
TokenCase == jwt_decode(token, SECRET_KEY, vres.at).exc

\* C13 as stated: the bearer provider's verify_token reports Expired,
\* InvalidSignature and Malformed as three distinct error kinds: the error of
\* a token in one of the three cases differs from the error of a token in
\* either of the other two.
C13_ThreeErrorKinds ==
    (AUTH_TYPE = "jwt" /\ issued.any /\ Refused) =>
        LET malformed == JWTProvider_verify_token(Garbage, vres.at)
            badmac == JWTProvider_verify_token(Forged(issued.token), vres.at)
            expired == JWTProvider_verify_token(
                           jwt_encode(issued.data, 0, SECRET_KEY), vres.at + 1)
        IN  /\ TokenCase = "ExpiredSignatureError" => vres.result.exc \notin {malformed.exc, badmac.exc}
            /\ TokenCase = "InvalidSignatureError" => vres.result.exc \notin {malformed.exc, expired.exc}
            /\ TokenCase = "DecodeError" => vres.result.exc \notin {badmac.exc, expired.exc}

\* The session provider object as its constructor made it.
FreshProvider == LoginPasswordProvider_init(session_secret).value

-----------------------------------------------------------------------------
(* Accounts: register and login (app/api/v1/endpoints/auth.py) *)

Emails == {"a@x.io", "b@x.io"}
Passwords == {"pw1", "pw2"}
Clients == {"c1", "c2"}

\* What clients send to /register and to /login.
UserCreates == [email : Emails, password : Passwords, is_active : BOOLEAN]
LoginRequests == [email : Emails, password : Passwords]

\* app.utils.security: a hash verifies exactly the password it was made of.
hash_password(password) == [kind |-> "hash", of |-> password]
verify_password(plain_password, hashed_password) ==
    hashed_password = hash_password(plain_password)

MultipleResultsFound == [kind |-> "MultipleResultsFound"]
IntegrityError == [kind |-> "IntegrityError"]

NoUser == [found |-> FALSE, id |-> 0, is_active |-> FALSE, email |-> "",
           hashed_password |-> hash_password("")]

UserOf(table, id) ==
    [found |-> TRUE, id |-> id, is_active |-> table[id].is_active,
     email |-> table[id].email, hashed_password |-> table[id].hashed_password]

RowsWithEmail(table, email) ==
    {id \in DOMAIN table : table[id].exists /\ table[id].email = email}

\* scalar_one_or_none() of select(User).where(User.email == email): None, the
\* one row, or MultipleResultsFound
get_by_email(table, email) ==
    LET ids == RowsWithEmail(table, email)
    IN  IF Cardinality(ids) > 1 THEN Raised(MultipleResultsFound)
        ELSE IF ids = {} THEN Returned(NoUser)
        ELSE Returned(UserOf(table, CHOOSE id \in ids : TRUE))

\* exists(email=email): scalar_one_or_none() is not None
email_exists(table, email) ==
    LET ids == RowsWithEmail(table, email)
    IN  IF Cardinality(ids) > 1 THEN Raised(MultipleResultsFound)
        ELSE Returned(ids # {})

\* create(obj_in): add, commit, refresh. The commit fails when the table
\* declares email unique and a row holds the email.
create(table, obj_in, unique) ==
    IF unique /\ RowsWithEmail(table, obj_in.email) # {}
    THEN [table |-> table, result |-> Raised(IntegrityError)]
    ELSE LET row == [exists |-> TRUE, is_active |-> obj_in.is_active,
                     email |-> obj_in.email,
                     hashed_password |-> obj_in.hashed_password]
             added == Append(table, row)
         IN  [table |-> added, result |-> Returned(UserOf(added, Len(added)))]

\* register from its entry up to the await of create
register_begin(table, user_in) ==
    LET held == email_exists(table, user_in.email)
        user_data == [email |-> user_in.email, is_active |-> user_in.is_active,
                      hashed_password |-> hash_password(user_in.password)]
    IN  IF held.kind = "raise"
        THEN [next |-> "done", outcome |-> held, user_data |-> user_data]
        ELSE IF held.value
        THEN [next |-> "done", user_data |-> user_data,
              outcome |-> Raised(HTTPException(400, "Email already registered", NoHeaders))]
        ELSE [next |-> "create", outcome |-> Returned(NoUser), user_data |-> user_data]

\* Token(access_token=..., refresh_token=...); NoToken is None
Token(access_token, refresh_token) ==
    [access_token |-> access_token, token_type |-> "bearer",
     refresh_token |-> refresh_token]

\* hasattr(auth_provider, "create_refresh_token")
has_create_refresh_token(kind) == kind = "jwt"

\* Faulty variant: the active flag is looked at before the password.
login_end_ActiveFirst(user, kind, login_data, t, session_id) ==
    IF ~user.found
    THEN [outcome |-> Raised(HTTPException(401, "Incorrect email or password", NoHeaders)),
          issued |-> 0]
    ELSE IF ~user.is_active
    THEN [outcome |-> Raised(HTTPException(403, "Inactive user", NoHeaders)),
          issued |-> 0]
    ELSE IF ~verify_password(login_data.password, user.hashed_password)
    THEN [outcome |-> Raised(HTTPException(401, "Incorrect email or password", NoHeaders)),
          issued |-> 0]
    ELSE LET access_token == create_access_token(kind, WithSub(Str(user.id)), NoDelta,
                                                 t, session_id)
         IN  IF kind = "jwt"
             THEN [outcome |-> Returned(Token(access_token,
                                   JWTProvider_create_refresh_token(WithSub(Str(user.id)), t))),
                   issued |-> 2]
             ELSE [outcome |-> Returned(Token(access_token, NoToken)), issued |-> 1]

\* What login does once get_by_email returned: the outcome, and how many
\* tokens the provider was asked for.
login_end(user, kind, login_data, t, session_id) ==
    IF ~user.found
    THEN [outcome |-> Raised(HTTPException(401, "Incorrect email or password", NoHeaders)),
          issued |-> 0]
    ELSE IF ~verify_password(login_data.password, user.hashed_password)
    THEN [outcome |-> Raised(HTTPException(401, "Incorrect email or password", NoHeaders)),
          issued |-> 0]
    ELSE IF ~user.is_active
    THEN [outcome |-> Raised(HTTPException(403, "Inactive user", NoHeaders)),
          issued |-> 0]
    ELSE LET access_token == create_access_token(kind, WithSub(Str(user.id)), NoDelta,
                                                 t, session_id)
         IN  IF has_create_refresh_token(kind)
             THEN [outcome |-> Returned(Token(access_token,
                                   JWTProvider_create_refresh_token(WithSub(Str(user.id)), t))),
                   issued |-> 2]
             ELSE [outcome |-> Returned(Token(access_token, NoToken)), issued |-> 1]

NoCall == [pc |-> "idle"]

\* The register requests that have passed email_exists and not yet created.
Creating == {c \in Clients : calls[c].pc = "create"}

\* POST /register arrives and runs up to its create.
RegisterCheck(c, user_in) ==
    /\ calls[c].pc = "idle"
    /\ Len(users) + Cardinality(Creating) < MaxRows
    /\ LET r == register_begin(users, user_in)
       IN  calls' = [calls EXCEPT ![c] =
                        [pc |-> r.next, op |-> "register", input |-> user_in,
                         user_data |-> r.user_data, outcome |-> r.outcome,
                         held |-> RowsWithEmail(users, user_in.email) # {},
                         created |-> 0]]
    /\ UNCHANGED <<session_secret, provider, email_unique,
                   AUTH_TYPE, now, users, deleted, req, token, issued, vres>>

\* The create of a register request commits, and the request ends.
RegisterCreate(c) ==
    /\ calls[c].pc = "create"
    /\ LET r == create(users, calls[c].user_data, email_unique)
       IN  /\ users' = r.table
           /\ calls' = [calls EXCEPT ![c] =
                          [@ EXCEPT !.pc = "done", !.outcome = r.result,
                                    !.held = RowsWithEmail(users, calls[c].input.email) # {},
                                    !.created = Len(r.table) - Len(users)]]
    /\ UNCHANGED <<session_secret, provider, email_unique,
                   AUTH_TYPE, now, deleted, req, token, issued, vres>>

\* POST /login
Login(c, login_data, session_id) ==
    /\ calls[c].pc = "idle"
    /\ LET user == get_by_email(users, login_data.email)
           r == IF user.kind = "raise" THEN [outcome |-> user, issued |-> 0]
                ELSE login_end(user.value, AUTH_TYPE, login_data, now, session_id)
       IN  calls' = [calls EXCEPT ![c] =
                        [pc |-> "done", op |-> "login", input |-> login_data,
                         user |-> user, outcome |-> r.outcome, issued |-> r.issued]]
    /\ UNCHANGED <<session_secret, provider, email_unique,
                   AUTH_TYPE, now, users, deleted, req, token, issued, vres>>

\* The response of a register or login request is sent.
Finish(c) ==
    /\ calls[c].pc = "done"
    /\ calls' = [calls EXCEPT ![c] = NoCall]
    /\ UNCHANGED <<session_secret, provider, email_unique,
                   AUTH_TYPE, now, users, deleted, req, token, issued, vres>>

InitAccounts ==
    /\ AUTH_TYPE \in AuthTypes
    /\ now = 0
    /\ users = <<>>
    /\ deleted = {}
    /\ req = Idle
    /\ token = NoToken
    /\ issued = NoIssue
    /\ vres = NoResult
    /\ session_secret = SESSION_SECRET_KEY
    /\ provider = get_auth_provider(AUTH_TYPE, session_secret).value
    /\ email_unique \in BOOLEAN
    /\ calls = [c \in Clients |-> NoCall]

NextAccounts ==
    \/ \E c \in Clients, user_in \in UserCreates : RegisterCheck(c, user_in)
    \/ \E c \in Clients : RegisterCreate(c)
    \/ \E c \in Clients, login_data \in LoginRequests, session_id \in SessionIds :
           Login(c, login_data, session_id)
    \/ \E c \in Clients : Finish(c)

SpecAccounts == InitAccounts /\ [][NextAccounts]_vars

-----------------------------------------------------------------------------
(* Properties of register and login, under SpecAccounts *)

Registered(c) == calls[c].pc = "done" /\ calls[c].op = "register"
LoggedIn(c) == calls[c].pc = "done" /\ calls[c].op = "login"

\* C16 as stated: after any interleaving of register requests no two stored
\* users have the same email; a register request whose email a stored user
\* holds, at its email_exists check or by the time of its create, creates
\* nothing and is rejected with 400 "Email already registered".
C16_RegisterKeepsEmailsUnique ==
    /\ \A i, j \in DOMAIN users : users[i].email = users[j].email => i = j
    /\ \A c \in Clients :
           (Registered(c) /\ calls[c].held) =>
               /\ calls[c].created = 0
               /\ calls[c].outcome
                      = Raised(HTTPException(400, "Email already registered", NoHeaders))

IncorrectCredentials ==
    Raised(HTTPException(401, "Incorrect email or password", NoHeaders))

\* C17: login returns a token only if get_by_email found a user, the password
\* verifies against that user's stored hash and the user is active; the
\* access token then verifies to the subject str(user.id). The checks run in
\* that order: no user and a wrong password give the same 401, an inactive
\* user gets 403 only with the correct password; a login that raises asked
\* the provider for no token. The refresh token is there exactly under the
\* bearer provider, and is None under the session provider.
C17_LoginChecks ==
    \A c \in Clients :
        LoggedIn(c) =>
            LET call == calls[c]
                user == call.user.value
                password_ok == verify_password(call.input.password, user.hashed_password)
            IN  /\ call.outcome.kind = "raise" => call.issued = 0
                /\ call.user.kind = "raise" => call.outcome.kind = "raise"
                /\ call.user.kind = "return" =>
                       /\ call.outcome.kind = "return"
                              <=> (user.found /\ password_ok /\ user.is_active)
                       /\ (~user.found \/ ~password_ok) => call.outcome = IncorrectCredentials
                       /\ (user.found /\ password_ok /\ ~user.is_active) =>
                              call.outcome = Raised(HTTPException(403, "Inactive user",
                                                                  NoHeaders))
                       /\ call.outcome.kind = "return" =>
                              /\ user.email = call.input.email
                              /\ user.id \in DOMAIN users
                              /\ users[user.id].email = call.input.email
                              /\ verify_token(AUTH_TYPE, call.outcome.value.access_token, now)
                                     .kind = "return"
                              /\ verify_token(AUTH_TYPE, call.outcome.value.access_token, now)
                                     .value.sub = Str(user.id)
                              /\ call.outcome.value.token_type = "bearer"
                              /\ (call.outcome.value.refresh_token # NoToken)
                                     <=> (AUTH_TYPE = "jwt")
                              /\ AUTH_TYPE = "jwt" =>
                                     call.outcome.value.refresh_token
                                         = JWTProvider_create_refresh_token(
                                               WithSub(Str(user.id)), now)

\* C17 witness: with two users stored, one login of the inactive user with the
\* right password has got 403 and one login of the active user 2 has got its
\* tokens.
C17_Witness ==
    /\ LoggedIn("c1") /\ LoggedIn("c2")
    /\ calls["c1"].user.kind = "return" /\ calls["c1"].user.value.found
    /\ ~calls["c1"].user.value.is_active
    /\ calls["c1"].outcome = Raised(HTTPException(403, "Inactive user", NoHeaders))
    /\ calls["c2"].outcome.kind = "return"
    /\ calls["c2"].user.value.id = 2
    /\ calls["c2"].issued = IF AUTH_TYPE = "jwt" THEN 2 ELSE 1

====
